---- MODULE Spec2Model ----
(***************************************************************************)
(* multi_vector<Ts...>: a fixed-capacity structure-of-arrays container     *)
(* (src/multi_vector.hpp).  The model instantiates the template as         *)
(* multi_vector<char, Tracked>: slot 0 is a trivially destructible type of *)
(* size 1 and alignment 1, slot 1 a type with a user-provided destructor,  *)
(* size 4 and alignment 4 (the Tracked type of src/tests.cpp).             *)
(*                                                                         *)
(* A pointer is a pair (allocation, byte offset); the null pointer is      *)
(* (0, 0).  The heap is the list of allocations made by operator new and   *)
(* the objects constructed in them by placement new.                       *)
(*                                                                         *)
(* The builder is used as in src/tests.cpp: it is configured, build() is   *)
(* called, and its lifetime ends before the containers are operated on.    *)
(* build() is const and holds no reference into the containers it made, so *)
(* the calls on the builder commute with the calls on the containers.      *)
(*                                                                         *)
(* Spec is the program with one build(); SpecTwo lets the same builder     *)
(* build twice; SpecWide draws the capacities from every machine-word      *)
(* value; SpecThrow adds an element type whose copy constructor can throw. *)
(***************************************************************************)
EXTENDS Integers, Sequences, FiniteSets, TLC

\* ------------------------------------------------------------------ bounds
MaxCap == 2
MaxCont == 3
MaxBuilds == 1
W == 6

\* ------------------------------------------------- the instantiated types
N == 2
Slots == 0 .. (N - 1)
type_sizes_ == (0 :> 1) @@ (1 :> 4)
type_aligns_ == (0 :> 1) @@ (1 :> 4)
trivially_destructible == (0 :> TRUE) @@ (1 :> FALSE)

\* whether the copy constructor of the slot's type can throw (char cannot; a
\* class type such as std::string can)
copy_can_throw == (0 :> FALSE) @@ (1 :> TRUE)

\* the type list Ts... and the two selectors of a slot
Ts == <<"char", "Tracked">>

\* index_of that drops the 1 + of the recursive case
RECURSIVE index_of_flat(_, _)
index_of_flat(T, Us) == IF Head(Us) = T THEN 0 ELSE index_of_flat(T, Tail(Us))

RECURSIVE index_of(_, _)
index_of(T, Us) == IF Head(Us) = T THEN 0 ELSE 1 + index_of(T, Tail(Us))

idx_v(T) == index_of(T, Ts)

type_at(I) == Ts[I + 1]

TypeNames == {Ts[k] : k \in 1 .. N}

Word == 2 ^ W
Values == {1, 2}
Conts == 1 .. MaxCont

Max(a, b) == IF a >= b THEN a ELSE b

RECURSIVE MaxOver(_, _)
MaxOver(f, i) == IF i = 0 THEN f[0] ELSE Max(f[i], MaxOver(f, i - 1))

block_align_ == MaxOver(type_aligns_, N - 1)

\* ------------------------------------------------ machine-word arithmetic
RECURSIVE BitAnd(_, _, _)
BitAnd(a, b, k) ==
    IF k = 0 THEN 0
    ELSE (IF a % 2 = 1 /\ b % 2 = 1 THEN 1 ELSE 0) + 2 * BitAnd(a \div 2, b \div 2, k - 1)

BitNot(a) == (Word - 1) - a

\* align_up that clears the low bits without adding alignment - 1 first
align_up_down(value, alignment) ==
    IF alignment # 0
    THEN BitAnd(value % Word, BitNot((alignment - 1) % Word), W)
    ELSE value

align_up(value, alignment) ==
    IF alignment # 0
    THEN BitAnd((value + (alignment - 1)) % Word, BitNot((alignment - 1) % Word), W)
    ELSE value

\* ------------------------------------------------------- pointers, heap
Null == [blk |-> 0, off |-> 0]

PtrAdd(p, k, ty) == [blk |-> p.blk, off |-> (p.off + k * type_sizes_[ty]) % Word]

BytePtr(b, off) == [blk |-> b, off |-> off]

\* ::new (p) T(v): an object of type ty with value v starts its lifetime at p
PlacementNew(o, p, ty, v) ==
    IF p \in DOMAIN o
    THEN [o EXCEPT ![p] = [ty |-> ty, val |-> v, ctor |-> @.ctor + 1, dtor |-> @.dtor]]
    ELSE o @@ (p :> [ty |-> ty, val |-> v, ctor |-> 1, dtor |-> 0])

\* ptr[j].~T(): the destructor runs on whatever is at p
DestructorCall(o, p, ty) ==
    IF p \in DOMAIN o
    THEN [o EXCEPT ![p] = [ty |-> @.ty, val |-> 0, ctor |-> @.ctor, dtor |-> @.dtor + 1]]
    ELSE o @@ (p :> [ty |-> ty, val |-> 0, ctor |-> 0, dtor |-> 1])

\* ::operator new(size, align): a fresh allocation, never null
OperatorNew(bl, size, align) == Append(bl, [size |-> size, align |-> align, released |-> 0])

\* ::operator delete(p, align): the allocation is given back
OperatorDelete(bl, p) == [bl EXCEPT ![p.blk] = [@ EXCEPT !.released = @ + 1]]

\* released storage holds no values any more
Scrub(o, p) ==
    [q \in DOMAIN o |-> IF q.blk = p.blk THEN [o[q] EXCEPT !.val = 0] ELSE o[q]]

\* ------------------------------------------------------- multi_vector
EmptyMV ==
    [data_ptrs_ |-> [i \in Slots |-> Null],
     sizes_ |-> [i \in Slots |-> 0],
     capacities_ |-> [i \in Slots |-> 0],
     block_ |-> Null,
     block_size_ |-> 0]

size(m, i) == m.sizes_[i]
data(m, i) == m.data_ptrs_[i]
capacity(m, i) == m.capacities_[i]

RECURSIVE DestroyLoop(_, _, _, _, _)
DestroyLoop(o, ptr, ty, j, n) ==
    IF j < n THEN DestroyLoop(DestructorCall(o, PtrAdd(ptr, j, ty), ty), ptr, ty, j + 1, n)
    ELSE o

destroy_elements_at(m, o, I) ==
    IF ~trivially_destructible[I]
    THEN DestroyLoop(o, m.data_ptrs_[I], I, 0, m.sizes_[I])
    ELSE o

RECURSIVE destroy_elements(_, _, _)
destroy_elements(m, o, I) ==
    IF I < N THEN destroy_elements(m, destroy_elements_at(m, o, I), I + 1) ELSE o

\* the destructor releasing the block without destroying the elements
Destructor_leak(m, o, bl) ==
    IF m.block_ = Null
    THEN [objs |-> o, blocks |-> bl]
    ELSE [objs |-> Scrub(o, m.block_), blocks |-> OperatorDelete(bl, m.block_)]

\* the destructor destroying the elements without releasing the block
Destructor_norelease(m, o, bl) ==
    IF m.block_ = Null
    THEN [objs |-> o, blocks |-> bl]
    ELSE [objs |-> destroy_elements(m, o, 0), blocks |-> bl]

\* ~multi_vector(): the heap after the destructor of m has run
Destructor(m, o, bl) ==
    IF m.block_ = Null
    THEN [objs |-> o, blocks |-> bl]
    ELSE [objs |-> Scrub(destroy_elements(m, o, 0), m.block_),
          blocks |-> OperatorDelete(bl, m.block_)]

\* the move constructor without the copy of the sizes
MoveCtor_nosizes(other) ==
    [self |-> [data_ptrs_ |-> [i \in Slots |-> other.data_ptrs_[i]],
               sizes_ |-> [i \in Slots |-> 0],
               capacities_ |-> [i \in Slots |-> other.capacities_[i]],
               block_ |-> other.block_,
               block_size_ |-> other.block_size_],
     other |-> [data_ptrs_ |-> [i \in Slots |-> Null],
                sizes_ |-> [i \in Slots |-> 0],
                capacities_ |-> [i \in Slots |-> 0],
                block_ |-> Null,
                block_size_ |-> 0]]

\* the move constructor without the reset of the source
MoveCtor_noreset(other) ==
    [self |-> [data_ptrs_ |-> [i \in Slots |-> other.data_ptrs_[i]],
               sizes_ |-> [i \in Slots |-> other.sizes_[i]],
               capacities_ |-> [i \in Slots |-> other.capacities_[i]],
               block_ |-> other.block_,
               block_size_ |-> other.block_size_],
     other |-> other]

\* the move constructor leaving the capacities in the source
MoveCtor_keepcaps(other) ==
    [self |-> [data_ptrs_ |-> [i \in Slots |-> other.data_ptrs_[i]],
               sizes_ |-> [i \in Slots |-> other.sizes_[i]],
               capacities_ |-> [i \in Slots |-> other.capacities_[i]],
               block_ |-> other.block_,
               block_size_ |-> other.block_size_],
     other |-> [data_ptrs_ |-> [i \in Slots |-> Null],
                sizes_ |-> [i \in Slots |-> 0],
                capacities_ |-> [i \in Slots |-> other.capacities_[i]],
                block_ |-> Null,
                block_size_ |-> 0]]

\* multi_vector(multi_vector&& other): the new object and what is left of other
MoveCtor(other) ==
    [self |-> [data_ptrs_ |-> [i \in Slots |-> other.data_ptrs_[i]],
               sizes_ |-> [i \in Slots |-> other.sizes_[i]],
               capacities_ |-> [i \in Slots |-> other.capacities_[i]],
               block_ |-> other.block_,
               block_size_ |-> other.block_size_],
     other |-> [data_ptrs_ |-> [i \in Slots |-> Null],
                sizes_ |-> [i \in Slots |-> 0],
                capacities_ |-> [i \in Slots |-> 0],
                block_ |-> Null,
                block_size_ |-> 0]]

\* push_back with the bound tested by > instead of >=
push_back_gt(m, o, i, v) ==
    IF size(m, i) > capacity(m, i)
    THEN [mv |-> m, objs |-> o, exc |-> "length_error"]
    ELSE [mv |-> [m EXCEPT !.sizes_[i] = (@ + 1) % Word],
          objs |-> PlacementNew(o, PtrAdd(data(m, i), size(m, i), i), i, v),
          exc |-> "none"]

\* push_back that constructs the element before it tests the bound
push_back_early(m, o, i, v) ==
    IF size(m, i) >= capacity(m, i)
    THEN [mv |-> m,
          objs |-> PlacementNew(o, PtrAdd(data(m, i), size(m, i), i), i, v),
          exc |-> "length_error"]
    ELSE [mv |-> [m EXCEPT !.sizes_[i] = (@ + 1) % Word],
          objs |-> PlacementNew(o, PtrAdd(data(m, i), size(m, i), i), i, v),
          exc |-> "none"]

\* push_back that increments the size before it constructs the element
push_back_late(m, o, i, v) ==
    IF size(m, i) >= capacity(m, i)
    THEN [mv |-> m, objs |-> o, exc |-> "length_error"]
    ELSE [mv |-> [m EXCEPT !.sizes_[i] = (@ + 1) % Word],
          objs |-> PlacementNew(o, PtrAdd(data(m, i), size(m, i) + 1, i), i, v),
          exc |-> "none"]

\* push_back that constructs every element at the start of the slot's array
push_back_front(m, o, i, v) ==
    IF size(m, i) >= capacity(m, i)
    THEN [mv |-> m, objs |-> o, exc |-> "length_error"]
    ELSE [mv |-> [m EXCEPT !.sizes_[i] = (@ + 1) % Word],
          objs |-> PlacementNew(o, PtrAdd(data(m, i), 0, i), i, v),
          exc |-> "none"]

\* push_back<idx>(value): the container, the heap and the exception thrown
push_back(m, o, i, v) ==
    IF size(m, i) >= capacity(m, i)
    THEN [mv |-> m, objs |-> o, exc |-> "length_error"]
    ELSE [mv |-> [m EXCEPT !.sizes_[i] = (@ + 1) % Word],
          objs |-> PlacementNew(o, PtrAdd(data(m, i), size(m, i), i), i, v),
          exc |-> "none"]

\* the members selected by type: size<T>(), data<T>(), capacity<T>(), push_back<T>()
size_T(m, T) == m.sizes_[idx_v(T)]
data_T(m, T) == m.data_ptrs_[idx_v(T)]
capacity_T(m, T) == m.capacities_[idx_v(T)]

push_back_T(m, o, T, v) ==
    IF size_T(m, T) >= capacity_T(m, T)
    THEN [mv |-> m, objs |-> o, exc |-> "length_error"]
    ELSE [mv |-> [m EXCEPT !.sizes_[idx_v(T)] = (@ + 1) % Word],
          objs |-> PlacementNew(o, PtrAdd(data_T(m, T), size_T(m, T), idx_v(T)), idx_v(T), v),
          exc |-> "none"]

\* ------------------------------------------------------- builder
NoDefault == << >>
has_value(opt) == Len(opt) > 0
value(opt) == opt[1]

RECURSIVE LayoutLoop(_, _, _, _)
LayoutLoop(caps, i, off, offsets) ==
    IF i < N
    THEN LET a == align_up(off, type_aligns_[i])
         IN LayoutLoop(caps, i + 1, (a + caps[i] * type_sizes_[i]) % Word,
                       [offsets EXCEPT ![i] = a])
    ELSE [off |-> off, offsets |-> offsets]

Layout(caps) == LayoutLoop(caps, 0, 0, [i \in Slots |-> 0])

\* the fill loop stopping one position early
RECURSIVE FillLoop_short(_, _, _, _, _, _)
FillLoop_short(o, ptr, ty, v, j, n) ==
    IF j + 1 < n
    THEN FillLoop_short(PlacementNew(o, PtrAdd(ptr, j, ty), ty, v), ptr, ty, v, j + 1, n)
    ELSE o

RECURSIVE FillLoop(_, _, _, _, _, _)
FillLoop(o, ptr, ty, v, j, n) ==
    IF j < n THEN FillLoop(PlacementNew(o, PtrAdd(ptr, j, ty), ty, v), ptr, ty, v, j + 1, n)
    ELSE o

\* init_default_at that fills the slot and forgets to set its size
init_default_at_nosize(caps, defs, st, I) ==
    IF has_value(defs[I])
    THEN [mv |-> st.mv,
          objs |-> FillLoop(st.objs, st.mv.data_ptrs_[I], I, value(defs[I]), 0, caps[I])]
    ELSE st

\* init_default_at<I>(mv): the container and the heap after the fill of slot I
init_default_at(caps, defs, st, I) ==
    IF has_value(defs[I])
    THEN [mv |-> [st.mv EXCEPT !.sizes_[I] = caps[I]],
          objs |-> FillLoop(st.objs, st.mv.data_ptrs_[I], I, value(defs[I]), 0, caps[I])]
    ELSE st

RECURSIVE init_defaults(_, _, _, _)
init_defaults(caps, defs, st, I) ==
    IF I < N THEN init_defaults(caps, defs, init_default_at(caps, defs, st, I), I + 1)
    ELSE st

\* init_defaults up to, and not including, slot stop
RECURSIVE init_defaults_until(_, _, _, _, _)
init_defaults_until(caps, defs, st, I, stop) ==
    IF I < stop
    THEN init_defaults_until(caps, defs, init_default_at(caps, defs, st, I), I + 1, stop)
    ELSE st

\* init_default_at<I>(mv) left by an exception of the copy constructor at
\* position j: positions [0, j) are constructed, sizes_[I] is not yet assigned
init_default_at_throw(caps, defs, st, I, j) ==
    [mv |-> st.mv,
     objs |-> FillLoop(st.objs, st.mv.data_ptrs_[I], I, value(defs[I]), 0, j)]

\* build() recording the capacity of slot 0 for every slot
BuildLocal_cap0(caps, defs, o, b) ==
    LET lay == Layout(caps)
        m == [data_ptrs_ |-> [i \in Slots |-> BytePtr(b, lay.offsets[i])],
              sizes_ |-> [i \in Slots |-> 0],
              capacities_ |-> [i \in Slots |-> caps[0]],
              block_ |-> BytePtr(b, 0),
              block_size_ |-> lay.off]
    IN init_defaults(caps, defs, [mv |-> m, objs |-> o], 0)

\* build() leaving the base pointer of a slot of capacity 0 null
BuildLocal_nullptr(caps, defs, o, b) ==
    LET lay == Layout(caps)
        m == [data_ptrs_ |-> [i \in Slots |->
                                 IF caps[i] = 0 THEN Null ELSE BytePtr(b, lay.offsets[i])],
              sizes_ |-> [i \in Slots |-> 0],
              capacities_ |-> [i \in Slots |-> caps[i]],
              block_ |-> BytePtr(b, 0),
              block_size_ |-> lay.off]
    IN init_defaults(caps, defs, [mv |-> m, objs |-> o], 0)

\* the local mv of build() once the block b is allocated, and the heap
BuildLocal(caps, defs, o, b) ==
    LET lay == Layout(caps)
        m == [data_ptrs_ |-> [i \in Slots |-> BytePtr(b, lay.offsets[i])],
              sizes_ |-> [i \in Slots |-> 0],
              capacities_ |-> [i \in Slots |-> caps[i]],
              block_ |-> BytePtr(b, 0),
              block_size_ |-> lay.off]
    IN init_defaults(caps, defs, [mv |-> m, objs |-> o], 0)

\* ------------------------------------------------------- state
\* bst, caps_, defaults_: the builder;  mv, cst: the container objects and
\* their lifetimes;  blocks, objs: the heap;  exc: the exception the last call
\* threw.  History: origin[c] is the allocation container c received when it
\* was created, movedfrom the containers a move constructor took from, hist[b]
\* the defaults allocation b was built with and the values pushed into it.
VARIABLES bst, caps_, defaults_, mv, cst, blocks, objs, exc, origin, movedfrom, hist

vars == <<bst, caps_, defaults_, mv, cst, blocks, objs, exc, origin, movedfrom, hist>>

Init ==
    /\ bst = "alive"
    /\ caps_ = [i \in Slots |-> 0]
    /\ defaults_ = [i \in Slots |-> NoDefault]
    /\ mv = [c \in Conts |-> EmptyMV]
    /\ cst = [c \in Conts |-> "unborn"]
    /\ blocks = << >>
    /\ objs = << >>
    /\ exc = "none"
    /\ origin = [c \in Conts |-> 0]
    /\ movedfrom = {}
    /\ hist = << >>

\* the next container object to come into existence
NextCont(c) == cst[c] = "unborn" /\ \A d \in Conts : d < c => cst[d] # "unborn"

\* capacity<idx>(cap) that also forgets the default recorded for the slot
BuilderCapacity_reset(i, cap) ==
    /\ bst = "alive"
    /\ caps_' = [caps_ EXCEPT ![i] = cap]
    /\ defaults_' = [defaults_ EXCEPT ![i] = NoDefault]
    /\ exc' = "none"
    /\ UNCHANGED <<bst, mv, cst, blocks, objs, origin, movedfrom, hist>>

BuilderCapacity(i, cap) ==
    /\ bst = "alive"
    /\ caps_' = [caps_ EXCEPT ![i] = cap]
    /\ exc' = "none"
    /\ UNCHANGED <<bst, defaults_, mv, cst, blocks, objs, origin, movedfrom, hist>>

BuilderDefaultValue(i, v) ==
    /\ bst = "alive"
    /\ defaults_' = [defaults_ EXCEPT ![i] = <<v>>]
    /\ exc' = "none"
    /\ UNCHANGED <<bst, caps_, mv, cst, blocks, objs, origin, movedfrom, hist>>

\* builder::capacity<T>(cap), builder::default_value<T>(value)
BuilderCapacityT(T, cap) ==
    /\ bst = "alive"
    /\ caps_' = [caps_ EXCEPT ![idx_v(T)] = cap]
    /\ exc' = "none"
    /\ UNCHANGED <<bst, defaults_, mv, cst, blocks, objs, origin, movedfrom, hist>>

BuilderDefaultValueT(T, v) ==
    /\ bst = "alive"
    /\ defaults_' = [defaults_ EXCEPT ![idx_v(T)] = <<v>>]
    /\ exc' = "none"
    /\ UNCHANGED <<bst, caps_, mv, cst, blocks, objs, origin, movedfrom, hist>>

\* build() returns its local by value: the copy is elided, or the result is
\* move-constructed from the local, whose destructor then runs
Build(c, elide) ==
    /\ bst = "alive"
    /\ NextCont(c)
    /\ LET b == Len(blocks) + 1
           bl == OperatorNew(blocks, Layout(caps_).off, block_align_)
           loc == BuildLocal(caps_, defaults_, objs, b)
           mvd == MoveCtor(loc.mv)
           hp == Destructor(mvd.other, loc.objs, bl)
       IN /\ mv' = [mv EXCEPT ![c] = IF elide THEN loc.mv ELSE mvd.self]
          /\ objs' = IF elide THEN loc.objs ELSE hp.objs
          /\ blocks' = IF elide THEN bl ELSE hp.blocks
          /\ origin' = [origin EXCEPT ![c] = b]
    /\ hist' = Append(hist, [defs |-> defaults_, pushed |-> [i \in Slots |-> << >>]])
    /\ cst' = [cst EXCEPT ![c] = "alive"]
    /\ exc' = "none"
    /\ UNCHANGED <<bst, caps_, defaults_, movedfrom>>

\* a failed allocation that is swallowed: build() returns a container that
\* has the recorded capacities and no block
BuildBadAlloc_dangling ==
    /\ bst = "alive"
    /\ \E c \in Conts :
           /\ NextCont(c)
           /\ mv' = [mv EXCEPT ![c] = [EmptyMV EXCEPT !.capacities_ = caps_]]
           /\ cst' = [cst EXCEPT ![c] = "alive"]
    /\ exc' = "none"
    /\ UNCHANGED <<bst, caps_, defaults_, blocks, objs, origin, movedfrom, hist>>

\* build() in which the copy constructor throws at position j of slot i of
\* the default fill: the local mv is destroyed while the exception unwinds
BuildCopyThrows(i, j) ==
    /\ bst = "alive"
    /\ copy_can_throw[i]
    /\ has_value(defaults_[i])
    /\ j < caps_[i]
    /\ LET b == Len(blocks) + 1
           bl == OperatorNew(blocks, Layout(caps_).off, block_align_)
           lay == Layout(caps_)
           m == [data_ptrs_ |-> [k \in Slots |-> BytePtr(b, lay.offsets[k])],
                 sizes_ |-> [k \in Slots |-> 0],
                 capacities_ |-> [k \in Slots |-> caps_[k]],
                 block_ |-> BytePtr(b, 0),
                 block_size_ |-> lay.off]
           st == init_defaults_until(caps_, defaults_, [mv |-> m, objs |-> objs], 0, i)
           loc == init_default_at_throw(caps_, defaults_, st, i, j)
           hp == Destructor(loc.mv, loc.objs, bl)
       IN /\ objs' = hp.objs
          /\ blocks' = hp.blocks
    /\ hist' = Append(hist, [defs |-> defaults_, pushed |-> [k \in Slots |-> << >>]])
    /\ exc' = "copy_error"
    /\ UNCHANGED <<bst, caps_, defaults_, mv, cst, origin, movedfrom>>

\* operator new throws std::bad_alloc: the local mv, still empty, is destroyed
BuildBadAlloc ==
    /\ bst = "alive"
    /\ LET hp == Destructor(EmptyMV, objs, blocks)
       IN /\ objs' = hp.objs
          /\ blocks' = hp.blocks
    /\ exc' = "bad_alloc"
    /\ UNCHANGED <<bst, caps_, defaults_, mv, cst, origin, movedfrom, hist>>

\* ~builder(): the end of the builder's lifetime
BuilderDestroy ==
    /\ bst = "alive"
    /\ bst' = "gone"
    /\ caps_' = [i \in Slots |-> 0]
    /\ defaults_' = [i \in Slots |-> NoDefault]
    /\ exc' = "none"
    /\ UNCHANGED <<mv, cst, blocks, objs, origin, movedfrom, hist>>

\* multi_vector() noexcept = default
DefaultConstruct(c) ==
    /\ bst = "gone"
    /\ NextCont(c)
    /\ mv' = [mv EXCEPT ![c] = EmptyMV]
    /\ cst' = [cst EXCEPT ![c] = "alive"]
    /\ exc' = "none"
    /\ UNCHANGED <<bst, caps_, defaults_, blocks, objs, origin, movedfrom, hist>>

PushBack(c, i, v) ==
    /\ bst = "gone"
    /\ cst[c] = "alive"
    /\ LET r == push_back(mv[c], objs, i, v)
           b == mv[c].block_.blk
       IN /\ mv' = [mv EXCEPT ![c] = r.mv]
          /\ objs' = r.objs
          /\ exc' = r.exc
          /\ hist' = IF r.exc = "none" /\ b \in 1 .. Len(hist)
                     THEN [hist EXCEPT ![b].pushed[i] = Append(@, v)]
                     ELSE hist
    /\ UNCHANGED <<bst, caps_, defaults_, cst, blocks, origin, movedfrom>>

\* push_back<T>(value)
PushBackT(c, T, v) ==
    /\ bst = "gone"
    /\ cst[c] = "alive"
    /\ LET r == push_back_T(mv[c], objs, T, v)
           b == mv[c].block_.blk
       IN /\ mv' = [mv EXCEPT ![c] = r.mv]
          /\ objs' = r.objs
          /\ exc' = r.exc
          /\ hist' = IF r.exc = "none" /\ b \in 1 .. Len(hist)
                     THEN [hist EXCEPT ![b].pushed[idx_v(T)] = Append(@, v)]
                     ELSE hist
    /\ UNCHANGED <<bst, caps_, defaults_, cst, blocks, origin, movedfrom>>

\* push_back<idx>(value) in which the copy constructor throws: the bound was
\* passed, no object is constructed and the increment of sizes_ is not reached
PushBackCopyThrows(c, i, v) ==
    /\ bst = "gone"
    /\ cst[c] = "alive"
    /\ copy_can_throw[i]
    /\ size(mv[c], i) < capacity(mv[c], i)
    /\ exc' = "copy_error"
    /\ UNCHANGED <<bst, caps_, defaults_, mv, cst, blocks, objs, origin, movedfrom, hist>>

MoveConstruct(dst, src) ==
    /\ bst = "gone"
    /\ NextCont(dst)
    /\ cst[src] = "alive"
    /\ LET r == MoveCtor(mv[src])
       IN mv' = [mv EXCEPT ![dst] = r.self, ![src] = r.other]
    /\ cst' = [cst EXCEPT ![dst] = "alive"]
    /\ origin' = [origin EXCEPT ![dst] = mv[src].block_.blk]
    /\ movedfrom' = movedfrom \cup {src}
    /\ exc' = "none"
    /\ UNCHANGED <<bst, caps_, defaults_, blocks, objs, hist>>

Destroy(c) ==
    /\ bst = "gone"
    /\ cst[c] = "alive"
    /\ LET hp == Destructor(mv[c], objs, blocks)
       IN /\ objs' = hp.objs
          /\ blocks' = hp.blocks
    /\ cst' = [cst EXCEPT ![c] = "destroyed"]
    /\ exc' = "none"
    /\ UNCHANGED <<bst, caps_, defaults_, mv, origin, movedfrom, hist>>

Next ==
    \/ \E i \in Slots, cap \in 0 .. MaxCap : BuilderCapacity(i, cap)
    \/ \E i \in Slots, v \in Values : BuilderDefaultValue(i, v)
    \/ \E T \in TypeNames, cap \in 0 .. MaxCap : BuilderCapacityT(T, cap)
    \/ \E T \in TypeNames, v \in Values : BuilderDefaultValueT(T, v)
    \/ \E c \in Conts, T \in TypeNames, v \in Values : PushBackT(c, T, v)
    \/ \E c \in Conts, elide \in BOOLEAN : Len(blocks) < MaxBuilds /\ Build(c, elide)
    \/ BuildBadAlloc
    \/ BuilderDestroy
    \/ \E c \in Conts : DefaultConstruct(c)
    \/ \E c \in Conts, i \in Slots, v \in Values : PushBack(c, i, v)
    \/ \E dst \in Conts, src \in Conts : MoveConstruct(dst, src)
    \/ \E c \in Conts : Destroy(c)

Spec == Init /\ [][Next]_vars

\* the same operations with two build() calls on the builder and smaller slots
MaxCapTwo == 1
MaxBuildsTwo == 2

NextTwo ==
    \/ \E i \in Slots, cap \in 0 .. MaxCapTwo : BuilderCapacity(i, cap)
    \/ \E i \in Slots, v \in Values : BuilderDefaultValue(i, v)
    \/ \E c \in Conts, elide \in BOOLEAN : Len(blocks) < MaxBuildsTwo /\ Build(c, elide)
    \/ BuildBadAlloc
    \/ BuilderDestroy
    \/ \E c \in Conts : DefaultConstruct(c)
    \/ \E c \in Conts, i \in Slots, v \in Values : PushBack(c, i, v)
    \/ \E dst \in Conts, src \in Conts : MoveConstruct(dst, src)
    \/ \E c \in Conts : Destroy(c)

SpecTwo == Init /\ [][NextTwo]_vars

\* ------------------------------------------------------- vocabulary of the properties
Alive(c) == cst[c] = "alive"

\* position j of slot i of container m
Pos(m, i, j) == PtrAdd(data(m, i), j, i)

\* in the heap (o, bl) a live object of type ty is at p
LiveIn(o, bl, p, ty) ==
    /\ p \in DOMAIN o
    /\ p.blk \in 1 .. Len(bl)
    /\ bl[p.blk].released = 0
    /\ o[p].ty = ty
    /\ o[p].ctor = o[p].dtor + 1

\* in the heap (o, bl) reading position p as type ty gives v
ReadsIn(o, bl, p, ty, v) == LiveIn(o, bl, p, ty) /\ o[p].val = v

\* The builder with capacities drawn from every machine-word value: capacity
\* calls, then build() and the life of the built container.
NextWide ==
    \/ \E i \in Slots, cap \in 0 .. (Word - 1) :
           Len(blocks) = 0 /\ BuilderCapacity(i, cap)
    \/ \E c \in Conts, elide \in BOOLEAN : Len(blocks) < MaxBuilds /\ Build(c, elide)
    \/ BuildBadAlloc
    \/ BuilderDestroy
    \/ \E c \in Conts : Destroy(c)

SpecWide == Init /\ [][NextWide]_vars

\* The program with an element type whose copy constructor can throw.
NextThrow ==
    \/ Next
    \/ \E i \in Slots, j \in 0 .. (MaxCap - 1) :
           Len(blocks) < MaxBuilds /\ BuildCopyThrows(i, j)
    \/ \E c \in Conts, i \in Slots, v \in Values : PushBackCopyThrows(c, i, v)

SpecThrow == Init /\ [][NextThrow]_vars

\* --------------------------------------------------------------------------
\* C1: push_back on a slot throws std::length_error exactly when the slot's
\* size equals its capacity; in every other state it succeeds and the slot's
\* size grows by exactly 1.
C1_PushBackFailsExactlyWhenFull ==
    [][\A c \in Conts, i \in Slots, v \in Values :
          PushBack(c, i, v) =>
              IF size(mv[c], i) = capacity(mv[c], i)
              THEN exc' = "length_error" /\ size(mv'[c], i) = size(mv[c], i)
              ELSE exc' = "none" /\ size(mv'[c], i) = size(mv[c], i) + 1]_vars

\* a push_back has just thrown on a slot that earlier pushes filled to capacity
C1_Witness ==
    /\ exc = "length_error"
    /\ \E c \in Conts, i \in Slots :
          /\ Alive(c)
          /\ mv[c].block_ # Null
          /\ capacity(mv[c], i) = MaxCap
          /\ Len(hist[mv[c].block_.blk].pushed[i]) = MaxCap
          /\ size(mv[c], i) = capacity(mv[c], i)

\* C2: a push_back that throws std::length_error leaves the whole container
\* and the heap as they were: no element is constructed, no size, capacity,
\* base pointer or stored element changes, and a slot that had free capacity
\* still accepts a push.
C2_FailedPushBackChangesNothing ==
    [][\A c \in Conts, i \in Slots, v \in Values :
          (PushBack(c, i, v) /\ exc' = "length_error") =>
              /\ mv' = mv
              /\ objs' = objs
              /\ blocks' = blocks
              /\ \A k \in Slots :
                    size(mv[c], k) < capacity(mv[c], k)
                        => push_back(mv'[c], objs', k, v).exc = "none"]_vars

\* a push_back has just thrown on a full slot while the other slot of the
\* same container holds an element and still has room
C2_Witness ==
    /\ exc = "length_error"
    /\ \E c \in Conts :
          /\ Alive(c)
          /\ size(mv[c], 1) = capacity(mv[c], 1)
          /\ capacity(mv[c], 1) > 0
          /\ size(mv[c], 0) = 1
          /\ capacity(mv[c], 0) = 2
          /\ ReadsIn(objs, blocks, Pos(mv[c], 0, 0), 0, 2)

\* C3: in every reachable state every slot of every container has
\* size <= capacity, and position j of the slot holds a live constructed
\* element of the slot's type if and only if j < size.
C3_SizeBoundsLiveElements ==
    \A c \in Conts, i \in Slots :
        Alive(c) =>
            /\ size(mv[c], i) <= capacity(mv[c], i)
            /\ \A j \in 0 .. (capacity(mv[c], i) - 1) :
                  LiveIn(objs, blocks, Pos(mv[c], i, j), i) <=> j < size(mv[c], i)

\* a container that received its block by a move, whose source has been torn
\* down, holds a partly filled slot and a slot filled by default
C3_Witness ==
    \E c \in Conts, d \in Conts :
        /\ Alive(c)
        /\ cst[d] = "destroyed"
        /\ d \in movedfrom
        /\ origin[c] # 0
        /\ origin[d] = origin[c]
        /\ mv[c].block_ = BytePtr(origin[c], 0)
        /\ has_value(hist[origin[c]].defs[0])
        /\ size(mv[c], 0) = 2
        /\ capacity(mv[c], 1) = 2
        /\ size(mv[c], 1) = 1

\* C4: in a container built without defaults, positions [0, size) of every
\* slot read back exactly the values pushed to that slot, in the order they
\* were pushed, whatever was pushed to the other slots.
C4_ReadsBackPushedInOrder ==
    \A c \in Conts, i \in Slots :
        (/\ Alive(c)
         /\ mv[c].block_ # Null
         /\ \A k \in Slots : ~has_value(hist[mv[c].block_.blk].defs[k]))
        => LET pushed == hist[mv[c].block_.blk].pushed[i]
           IN /\ size(mv[c], i) = Len(pushed)
              /\ \A j \in 1 .. Len(pushed) :
                    ReadsIn(objs, blocks, Pos(mv[c], i, j - 1), i, pushed[j])

\* pushes to the two slots were interleaved and each slot holds two different
\* values
C4_Witness ==
    \E c \in Conts :
        /\ Alive(c)
        /\ mv[c].block_ # Null
        /\ \A k \in Slots : ~has_value(hist[mv[c].block_.blk].defs[k])
        /\ hist[mv[c].block_.blk].pushed[0] = <<2, 1>>
        /\ hist[mv[c].block_.blk].pushed[1] = <<1, 2>>
        /\ ReadsIn(objs, blocks, Pos(mv[c], 0, 0), 0, 2)
        /\ ReadsIn(objs, blocks, Pos(mv[c], 1, 1), 1, 2)

\* C5: immediately after build(), every slot's capacity is the capacity recorded
\* in the builder, and its size is that capacity if a default value was
\* recorded for the slot and 0 otherwise.
C5_BuildSizesAndCapacities ==
    [][\A c \in Conts, elide \in BOOLEAN :
          Build(c, elide) =>
              \A i \in Slots :
                  /\ capacity(mv'[c], i) = caps_[i]
                  /\ size(mv'[c], i) = IF has_value(defaults_[i]) THEN caps_[i] ELSE 0]_vars

\* build() has just returned a container with different capacities for the
\* two slots, one filled by default and one left empty
C5_Witness ==
    /\ bst = "alive"
    /\ \E c \in Conts :
          /\ Alive(c)
          /\ caps_ = (0 :> 1) @@ (1 :> 2)
          /\ ~has_value(defaults_[0])
          /\ has_value(defaults_[1])
          /\ origin[c] # 0
          /\ hist[origin[c]].defs = defaults_
          /\ mv[c].capacities_ = caps_
          /\ mv[c].sizes_ = (0 :> 0) @@ (1 :> 2)

\* C6: immediately after build(), every position of a slot with a recorded
\* default reads that default, a slot without one holds no constructed
\* element, and the fill of one slot leaves the other slots' content alone.
C6_BuildFillsDefaults ==
    [][\A c \in Conts, elide \in BOOLEAN :
          Build(c, elide) =>
              \A i \in Slots : \A j \in 0 .. (caps_[i] - 1) :
                  IF has_value(defaults_[i])
                  THEN ReadsIn(objs', blocks', Pos(mv'[c], i, j), i, value(defaults_[i]))
                  ELSE Pos(mv'[c], i, j) \notin DOMAIN objs']_vars

\* build() has just filled both slots, each with its own default value
C6_Witness ==
    /\ bst = "alive"
    /\ \E c \in Conts :
          /\ Alive(c)
          /\ mv[c].capacities_ = (0 :> 2) @@ (1 :> 2)
          /\ origin[c] # 0
          /\ hist[origin[c]].defs = (0 :> <<1>>) @@ (1 :> <<2>>)
          /\ \A j \in 0 .. 1 : ReadsIn(objs, blocks, Pos(mv[c], 0, j), 0, 1)
          /\ \A j \in 0 .. 1 : ReadsIn(objs, blocks, Pos(mv[c], 1, j), 1, 2)

\* C7: a move transfer gives the destination exactly the sizes, capacities,
\* base pointers, block and element values the source had immediately before,
\* leaves the source with size 0 in every slot, and constructs and destroys no
\* element.
C7_MoveTransfersEverything ==
    [][\A dst \in Conts, src \in Conts :
          MoveConstruct(dst, src) =>
              /\ mv'[dst] = mv[src]
              /\ \A i \in Slots : \A j \in 0 .. (size(mv[src], i) - 1) :
                    \E v \in Values :
                        /\ ReadsIn(objs, blocks, Pos(mv[src], i, j), i, v)
                        /\ ReadsIn(objs', blocks', Pos(mv'[dst], i, j), i, v)
              /\ \A i \in Slots : size(mv'[src], i) = 0
              /\ objs' = objs
              /\ blocks' = blocks]_vars

\* after a move the destination holds elements in both slots and the source,
\* still alive, has none
C7_Witness ==
    \E dst \in Conts, src \in Conts :
        /\ Alive(dst)
        /\ Alive(src)
        /\ src \in movedfrom
        /\ origin[src] # 0
        /\ origin[dst] = origin[src]
        /\ mv[dst].block_ = BytePtr(origin[src], 0)
        /\ size(mv[dst], 0) = 1
        /\ size(mv[dst], 1) = 2
        /\ \A i \in Slots : size(mv[src], i) = 0

\* C8: after a move transfer the source is in the empty state and its teardown
\* destroys no element and releases no block, before or after the
\* destination's teardown; the teardown of the container that holds the block
\* destroys the elements and releases the block.
C8_MovedFromTeardownIsNoOp ==
    [][/\ \A dst \in Conts, src \in Conts :
              MoveConstruct(dst, src) => mv'[src] = EmptyMV
       /\ \A c \in Conts :
              Destroy(c) =>
                  IF c \in movedfrom
                  THEN objs' = objs /\ blocks' = blocks
                  ELSE origin[c] # 0 =>
                          /\ blocks[origin[c]].released = 0
                          /\ blocks'[origin[c]].released = 1
                          /\ \A p \in DOMAIN objs :
                                p.blk = origin[c] =>
                                    /\ LiveIn(objs, blocks, p, objs[p].ty)
                                    /\ ~LiveIn(objs', blocks', p, objs[p].ty)]_vars

\* the source of a move and the destination have both been torn down; the
\* block was released once and its elements were destroyed
C8_Witness ==
    \E dst \in Conts, src \in Conts :
        /\ cst[dst] = "destroyed"
        /\ cst[src] = "destroyed"
        /\ src \in movedfrom
        /\ dst \notin movedfrom
        /\ origin[src] # 0
        /\ origin[dst] = origin[src]
        /\ blocks[origin[src]].released = 1
        /\ \E p \in DOMAIN objs : p.blk = origin[src] /\ objs[p].dtor = 1

\* the containers derived from allocation b
Derived(b) == {c \in Conts : origin[c] = b}

\* C9: once every container derived from a block has been torn down, every
\* element constructed in the block (by push_back or by the default fill) was
\* constructed once and destroyed once: the destructor of an element of a
\* type with a destructor ran exactly once, an element of a trivially
\* destructible type ended with the single release of the block.
C9_EveryElementDestroyedOnce ==
    \A b \in 1 .. Len(blocks) :
        (Derived(b) # {} /\ \A c \in Derived(b) : cst[c] = "destroyed") =>
            /\ blocks[b].released = 1
            /\ \A p \in DOMAIN objs :
                  p.blk = b =>
                      /\ objs[p].ctor = 1
                      /\ objs[p].dtor = IF trivially_destructible[objs[p].ty] THEN 0 ELSE 1

\* a block built with a default for one slot, pushed to in the other, moved
\* once, and every container derived from it torn down
C9_Witness ==
    \E b \in 1 .. Len(blocks) :
        /\ Cardinality(Derived(b)) = 2
        /\ \A c \in Derived(b) : cst[c] = "destroyed"
        /\ has_value(hist[b].defs[0])
        /\ Len(hist[b].pushed[1]) = 2
        /\ Cardinality({p \in DOMAIN objs : p.blk = b}) = 4

\* C10 as stated: data() is null for every slot whose capacity is 0.
C10_Original ==
    \A c \in Conts, i \in Slots :
        (Alive(c) /\ capacity(mv[c], i) = 0) => data(mv[c], i) = Null

\* data() is null exactly for the slots of a container that owns no block
DataNullIffNoBlock ==
    \A c \in Conts, i \in Slots :
        Alive(c) =>
            IF mv[c].block_ = Null
            THEN data(mv[c], i) = Null /\ capacity(mv[c], i) = 0
            ELSE data(mv[c], i) # Null /\ data(mv[c], i).blk = mv[c].block_.blk

\* C10 (amended): data() is null for every slot of a container that owns no
\* block; a slot of a container returned by build() has a non-null base
\* pointer into the block also when its capacity is 0, and every push_back on
\* a slot of capacity 0 throws std::length_error.
C10_NullDataOnlyWithoutBlock ==
    /\ DataNullIffNoBlock
    /\ [][/\ DataNullIffNoBlock'
          /\ \A c \in Conts, i \in Slots, v \in Values :
                (PushBack(c, i, v) /\ capacity(mv[c], i) = 0)
                    => exc' = "length_error"]_vars

\* a container built with capacity 0 for every slot, on which a push_back
\* has just thrown, returns non-null from every data() call
C10_Witness ==
    /\ exc = "length_error"
    /\ Cardinality({c \in Conts : cst[c] # "unborn"}) = 1
    /\ \E c \in Conts :
          /\ Alive(c)
          /\ mv[c].block_ # Null
          /\ \A i \in Slots : capacity(mv[c], i) = 0 /\ data(mv[c], i) # Null

\* a container that owns no block: default-constructed, or the source of a move
OwnsNoBlock(c) == origin[c] = 0 \/ c \in movedfrom

\* C11: a container that owns no block (default-constructed, or the source of
\* a move) reports size 0, capacity 0 and a null data pointer for every slot,
\* and every push_back on it throws std::length_error and leaves it in the
\* same empty state.
C11_NoBlockMeansEmpty ==
    /\ \A c \in Conts : (Alive(c) /\ OwnsNoBlock(c)) => mv[c] = EmptyMV
    /\ [][\A c \in Conts :
             /\ (Alive(c)' /\ OwnsNoBlock(c)') =>
                    \A i \in Slots :
                        /\ size(mv'[c], i) = 0
                        /\ capacity(mv'[c], i) = 0
                        /\ data(mv'[c], i) = Null
             /\ \A i \in Slots, v \in Values :
                    (PushBack(c, i, v) /\ OwnsNoBlock(c)) =>
                        /\ exc' = "length_error"
                        /\ mv'[c] = EmptyMV
                        /\ objs' = objs]_vars

\* a push_back has just thrown on the source of a move, while the container
\* that took its block has room in every slot
C11_Witness ==
    /\ exc = "length_error"
    /\ \E c \in Conts, d \in Conts :
          /\ Alive(c)
          /\ c \in movedfrom
          /\ origin[c] # 0
          /\ mv[c] = EmptyMV
          /\ Alive(d)
          /\ mv[d].block_ = BytePtr(origin[c], 0)
          /\ \A i \in Slots : size(mv[d], i) < capacity(mv[d], i)
          /\ \A e \in Conts : cst[e] # "unborn" => e \in {c, d}

\* the containers that hold allocation b
Holders(b) == {c \in Conts : Alive(c) /\ mv[c].block_.blk = b}

\* C12: every block belongs to exactly one container at a time: no two
\* containers hold the same block, a block made by build() is held by exactly
\* one container until it is released, and it is released exactly once, when
\* the container that holds it is torn down.
C12_BlockOwnershipIsLinear ==
    \A b \in 1 .. Len(blocks) :
        /\ blocks[b].released \in {0, 1}
        /\ blocks[b].released = 0 => Cardinality(Holders(b)) = 1
        /\ blocks[b].released = 1 => Holders(b) = {}

\* two blocks were built; the first was moved to a third container and
\* released by its teardown, the second is still held by the container build()
\* returned
C12_Witness ==
    /\ Len(blocks) = 2
    /\ blocks[1].released = 1
    /\ blocks[2].released = 0
    /\ Holders(2) = {2}
    /\ origin[3] = 1
    /\ cst[3] = "destroyed"
    /\ Alive(1)

\* C13: the type selector of the type declared at position i and the index
\* selector i address the same slot: size, capacity, data, push_back and the
\* builder's capacity and default_value read and change the same per-slot
\* state through either selector.
C13_SelectorsAgree ==
    /\ \A i \in Slots : idx_v(type_at(i)) = i
    /\ [][\A i \in Slots :
             /\ \A c \in Conts :
                    /\ size_T(mv'[c], type_at(i)) = size(mv'[c], i)
                    /\ capacity_T(mv'[c], type_at(i)) = capacity(mv'[c], i)
                    /\ data_T(mv'[c], type_at(i)) = data(mv'[c], i)
             /\ \A c \in Conts, v \in Values :
                    PushBackT(c, type_at(i), v) <=> PushBack(c, i, v)
             /\ \A cap \in 0 .. MaxCap :
                    BuilderCapacityT(type_at(i), cap) <=> BuilderCapacity(i, cap)
             /\ \A v \in Values :
                    BuilderDefaultValueT(type_at(i), v) <=> BuilderDefaultValue(i, v)]_vars

\* a container built with different capacities for the two slots holds
\* elements in both, and the type selectors read the sizes of their own slots
C13_Witness ==
    \E c \in Conts :
        /\ Alive(c)
        /\ capacity_T(mv[c], "char") = 1
        /\ capacity_T(mv[c], "Tracked") = 2
        /\ size_T(mv[c], "char") = 1
        /\ size_T(mv[c], "Tracked") = 2
        /\ size(mv[c], 0) = 1
        /\ size(mv[c], 1) = 2
        /\ data_T(mv[c], "Tracked") = data(mv[c], 1)
        /\ data_T(mv[c], "Tracked") # data(mv[c], 0)

\* C14 as the specification states it: a builder produces one container, and
\* after build() has returned one it produces no second one.
C14_Original == Len(hist) <= 1

\* C14: build() is a const member that leaves the builder as it was: every
\* call produces exactly one new container, which owns a freshly allocated
\* block no other container holds and has the capacities recorded in the
\* builder; the containers and blocks that existed before are untouched, and
\* the builder, still alive with the same configuration, can build again.
C14_BuildLeavesBuilderReusable ==
    [][\A c \in Conts, elide \in BOOLEAN :
          Build(c, elide) =>
              LET b == Len(blocks) + 1
              IN /\ bst' = "alive"
                 /\ caps_' = caps_
                 /\ defaults_' = defaults_
                 /\ {d \in Conts : cst'[d] # cst[d]} = {c}
                 /\ cst'[c] = "alive"
                 /\ \A d \in Conts \ {c} : mv'[d] = mv[d] /\ mv'[d].block_ # mv'[c].block_
                 /\ Len(blocks') = b
                 /\ \A a \in 1 .. Len(blocks) : blocks'[a] = blocks[a]
                 /\ blocks'[b].released = 0
                 /\ mv'[c].block_ = BytePtr(b, 0)
                 /\ mv'[c].capacities_ = caps_]_vars

\* the same builder, still alive, has built two containers with the same
\* capacities, each holding its own unreleased block
C14_Witness ==
    /\ bst = "alive"
    /\ Len(hist) = 2
    /\ Alive(1) /\ Alive(2)
    /\ mv[1].block_.blk = 1 /\ mv[2].block_.blk = 2
    /\ blocks[1].released = 0 /\ blocks[2].released = 0
    /\ mv[1].capacities_ = [i \in Slots |-> 1]
    /\ mv[2].capacities_ = mv[1].capacities_

\* C15: a successful push_back on slot i of a container changes only the size
\* of slot i and the one position data(i)[old size]: the capacity and the base
\* pointer of every slot, the block address and size, the sizes of the other
\* slots, every other position of the heap (the elements of the other slots
\* and the elements stored in slot i before), the allocations and every other
\* container are unchanged.
C15_PushBackFrame ==
    [][\A c \in Conts, i \in Slots, v \in Values :
          (PushBack(c, i, v) /\ exc' = "none") =>
              LET p == Pos(mv[c], i, size(mv[c], i))
              IN /\ mv'[c].capacities_ = mv[c].capacities_
                 /\ mv'[c].data_ptrs_ = mv[c].data_ptrs_
                 /\ mv'[c].block_ = mv[c].block_
                 /\ mv'[c].block_size_ = mv[c].block_size_
                 /\ \A k \in Slots \ {i} : size(mv'[c], k) = size(mv[c], k)
                 /\ size(mv'[c], i) = size(mv[c], i) + 1
                 /\ \A d \in Conts \ {c} : mv'[d] = mv[d]
                 /\ cst' = cst
                 /\ blocks' = blocks
                 /\ DOMAIN objs' = DOMAIN objs \cup {p}
                 /\ \A q \in DOMAIN objs \ {p} : objs'[q] = objs[q]
                 /\ ReadsIn(objs', blocks', p, i, v)]_vars

\* a push_back has just succeeded on a slot that already held an element,
\* while the other slot holds elements as well
C15_Witness ==
    \E c \in Conts :
        /\ Alive(c)
        /\ exc = "none"
        /\ mv[c].block_ # Null
        /\ mv[c].capacities_ = [i \in Slots |-> 2]
        /\ hist[mv[c].block_.blk].pushed[0] = <<1>>
        /\ hist[mv[c].block_.blk].pushed[1] = <<2, 1>>
        /\ size(mv[c], 1) = 2
        /\ ReadsIn(objs, blocks, Pos(mv[c], 1, 0), 1, 2)
        /\ ReadsIn(objs, blocks, Pos(mv[c], 1, 1), 1, 1)
        /\ ReadsIn(objs, blocks, Pos(mv[c], 0, 0), 0, 1)

\* the next multiple of a at or above v
RoundUp(v, a) == CHOOSE m \in v .. (v + a - 1) : m % a = 0

\* the layout rule: offset[0] = 0 and
\* offset[i] = RoundUp(offset[i-1] + capacity[i-1] * size[i-1], alignment[i])
RECURSIVE RuleOffset(_, _)
RuleOffset(caps, i) ==
    IF i = 0 THEN 0
    ELSE RoundUp(RuleOffset(caps, i - 1) + caps[i - 1] * type_sizes_[i - 1], type_aligns_[i])

\* C16: build() places the slots by the layout rule: offset[0] = 0 and each
\* later offset is the end of the previous slot's array rounded up to the
\* slot's alignment; each base pointer is block start + offset[i], each
\* offset is a multiple of the slot's alignment, the requested block size is
\* offset[N-1] + capacity[N-1] * sizeof(type N-1), and the block is allocated
\* at the maximum alignment of all types.
C16_BuildFollowsLayoutRule ==
    [][\A c \in Conts, elide \in BOOLEAN :
          Build(c, elide) =>
              LET b == Len(blocks) + 1
              IN /\ mv'[c].block_ = BytePtr(b, 0)
                 /\ \A i \in Slots :
                        /\ data(mv'[c], i) = BytePtr(b, RuleOffset(caps_, i))
                        /\ data(mv'[c], i).off % type_aligns_[i] = 0
                 /\ data(mv'[c], 0).off = 0
                 /\ blocks'[b].size =
                        RuleOffset(caps_, N - 1) + caps_[N - 1] * type_sizes_[N - 1]
                 /\ mv'[c].block_size_ = blocks'[b].size
                 /\ \A i \in Slots : blocks'[b].align >= type_aligns_[i]
                 /\ \E i \in Slots : blocks'[b].align = type_aligns_[i]]_vars

\* a built container whose second slot starts after padding: one char, then
\* three bytes of padding, then two 4-byte elements in a 12-byte block
C16_Witness ==
    \E c \in Conts :
        /\ Alive(c)
        /\ mv[c].block_ # Null
        /\ mv[c].capacities_ = (0 :> 1) @@ (1 :> 2)
        /\ data(mv[c], 0) = mv[c].block_
        /\ data(mv[c], 1) = BytePtr(mv[c].block_.blk, 4)
        /\ blocks[mv[c].block_.blk].size = 12
        /\ blocks[mv[c].block_.blk].align = 4

\* C17: the builder records the last value per slot and nothing else: a new
\* builder records capacity 0 and no default for every slot; a capacity call
\* replaces the capacity of its slot and leaves the other capacities and all
\* defaults as they were; a default_value call replaces the default of its
\* slot and leaves the other defaults and all capacities as they were (so
\* calls on different slots or of different kinds commute); build() uses
\* the capacity and the default recorded at the time of the call.
C17_BuilderLastValueWins ==
    /\ \A i \in Slots : caps_[i] = 0 /\ ~has_value(defaults_[i])
    /\ [][/\ \A i \in Slots, cap \in 0 .. MaxCapTwo :
                BuilderCapacity(i, cap) =>
                    /\ caps_'[i] = cap
                    /\ \A k \in Slots \ {i} : caps_'[k] = caps_[k]
                    /\ defaults_' = defaults_
          /\ \A i \in Slots, v \in Values :
                BuilderDefaultValue(i, v) =>
                    /\ has_value(defaults_'[i]) /\ value(defaults_'[i]) = v
                    /\ \A k \in Slots \ {i} : defaults_'[k] = defaults_[k]
                    /\ caps_' = caps_
          /\ \A c \in Conts, elide \in BOOLEAN :
                Build(c, elide) =>
                    \A i \in Slots :
                        /\ capacity(mv'[c], i) = caps_[i]
                        /\ size(mv'[c], i) = IF has_value(defaults_[i]) THEN caps_[i] ELSE 0
                        /\ has_value(defaults_[i]) =>
                               \A j \in 0 .. (caps_[i] - 1) :
                                   ReadsIn(objs', blocks', Pos(mv'[c], i, j), i,
                                           value(defaults_[i]))]_vars

\* one builder built twice: between the two calls the capacity of the first
\* slot and the default of the second were overwritten, and the second
\* container has the new capacity and holds the new default
C17_Witness ==
    /\ Len(hist) = 2
    /\ Alive(1) /\ Alive(2)
    /\ mv[1].block_.blk = 1 /\ mv[2].block_.blk = 2
    /\ mv[1].capacities_ = (0 :> 1) @@ (1 :> 1)
    /\ mv[2].capacities_ = (0 :> 0) @@ (1 :> 1)
    /\ hist[1].defs[1] = <<1>>
    /\ hist[2].defs[1] = <<2>>
    /\ size(mv[1], 1) = 1 /\ size(mv[2], 1) = 1
    /\ ReadsIn(objs, blocks, Pos(mv[1], 1, 0), 1, 1)
    /\ ReadsIn(objs, blocks, Pos(mv[2], 1, 0), 1, 2)

\* C18: when the block allocation of build() fails, build() reports
\* std::bad_alloc to its caller and returns no container: no container comes
\* into existence or changes, no element is constructed, no allocation is
\* made or released, no destructor runs, and the builder is as it was.
C18_AllocationFailureIsReported ==
    [][BuildBadAlloc =>
          /\ exc' = "bad_alloc"
          /\ cst' = cst
          /\ mv' = mv
          /\ \A c \in Conts : ~Alive(c) => mv'[c] = EmptyMV
          /\ objs' = objs
          /\ blocks' = blocks
          /\ origin' = origin
          /\ hist' = hist
          /\ bst' = bst /\ caps_' = caps_ /\ defaults_' = defaults_]_vars

\* build() has just failed on a builder that recorded non-zero capacities and
\* a default for the slot with a destructor: there is no container, no
\* allocation and no object
C18_Witness ==
    /\ exc = "bad_alloc"
    /\ bst = "alive"
    /\ caps_ = (0 :> 1) @@ (1 :> 2)
    /\ has_value(defaults_[1])
    /\ \A c \in Conts : cst[c] = "unborn" /\ mv[c] = EmptyMV
    /\ blocks = << >>
    /\ DOMAIN objs = {}

\* the bytes of slot i of container m, as offsets into its block, with the
\* product and the sum taken as true integers
SlotBegin(m, i) == data(m, i).off
SlotEnd(m, i) == data(m, i).off + capacity(m, i) * type_sizes_[i]

\* C19 as the specification states it: for every capacity vector the builder
\* can record, the byte ranges of the slots of a built container lie inside
\* the allocated block and the ranges of distinct slots are disjoint.
C19_Original ==
    \A c \in Conts :
        (Alive(c) /\ mv[c].block_ # Null) =>
            /\ \A i \in Slots : SlotEnd(mv[c], i) <= blocks[mv[c].block_.blk].size
            /\ \A i \in Slots, k \in Slots :
                   i < k => \/ SlotEnd(mv[c], i) <= SlotBegin(mv[c], k)
                            \/ SlotEnd(mv[c], k) <= SlotBegin(mv[c], i)

\* the objects with a destructor of block b that were constructed and whose
\* destructor did not run
Leaked(o, b) ==
    {p \in DOMAIN o : p.blk = b /\ ~trivially_destructible[o[p].ty] /\ o[p].dtor < o[p].ctor}

\* C20 as the specification states it: when the copy constructor throws at
\* position j of slot i of build()'s default fill, the block is released once
\* and every element that build() had constructed in it (the earlier slots
\* and positions [0, j) of slot i) has been destroyed exactly once before the
\* caller sees the failure; when it throws inside push_back, the container
\* and the heap are as before the call.
C20_Original ==
    [][/\ \A i \in Slots, j \in 0 .. (MaxCap - 1) :
              BuildCopyThrows(i, j) =>
                  LET b == Len(blocks) + 1
                  IN /\ Len(blocks') = b
                     /\ blocks'[b].released = 1
                     /\ Leaked(objs', b) = {}
                     /\ \A p \in DOMAIN objs' : p.blk = b => objs'[p].ctor = 1
                     /\ mv' = mv /\ cst' = cst
       /\ \A c \in Conts, i \in Slots, v \in Values :
              PushBackCopyThrows(c, i, v) =>
                  /\ size(mv'[c], i) = size(mv[c], i)
                  /\ mv' = mv /\ objs' = objs /\ blocks' = blocks]_vars

====
